---- MODULE Spec2Model ----
(***************************************************************************)
(* Model of hamilton/execution/executors.py: task handles, the direct and  *)
(* pooled executors, the default execution manager and the driver loop     *)
(* GraphRunner.run_until_complete, interleaved with the pool's workers.    *)
(***************************************************************************)
EXTENDS Integers, Sequences, FiniteSets, TLC

\* ---------------------------------------------------------------- bounds
NumTasks == 2
MaxPoolSize == 2
MaxExecutors == 3

Tasks == 1..NumTasks
None == 0

\* ------------------------------------------------------- enumerations
Purposes == {"EXECUTE_SINGLE", "EXECUTE_BLOCK"}
TaskStates == {"PENDING", "RUNNING", "SUCCESSFUL", "FAILED"}
PoolKinds == {"MultiThreadingExecutor", "MultiProcessingExecutor"}
ExecutorIds == {"local_executor", "remote_executor"}

TaskStateIsTerminal(s) == s \in {"SUCCESSFUL", "FAILED"}

VARIABLES
  purpose,          \* task.purpose of every task unit
  remote_kind,      \* class of the remote executor
  max_tasks,        \* PoolExecutor.max_tasks
  initialized,      \* PoolExecutor.initialized
  pool,             \* PoolExecutor.pool: its class and whether it is shut down
  active_futures,   \* PoolExecutor.active_futures (futures named by task id)
  fut,              \* concurrent.futures.Future of a task: none/running/ok/err
  handles,          \* kind of TaskFuture issued for a task: none/direct/wrapped
  ready,            \* graph state: units release_next_task may return
  gs_state,         \* graph state: last state pushed by update_task_state
  gs_result,        \* graph state: last result pushed by update_task_state
  task_futures,     \* GraphRunner.task_futures, keys in insertion order
  pc,               \* position of the driver in run_until_complete
  next_task,        \* local next_task (None = 0)
  task_executor,    \* local task_executor
  poll_items,       \* remaining items of task_futures.copy().items()
  state,            \* local state
  result,           \* local result
  exc,              \* exception propagating out of run_until_complete
  loop_exc,         \* exception raised by the loop body
  init_ok,          \* execution_manager.init() returned normally
  finalize_calls,   \* calls of execution_manager.finalize() by the driver
  started,          \* per executor: a successful init() not yet finalized
  last_call,        \* the last direct lifecycle call made before the run
  seen_state,       \* per handle: the last value get_state() returned
  mgr_executors,    \* ExecutionManager.executors of a manager used on its own
  mgr_last,         \* the last init()/finalize() call on that manager
  last_check,       \* the last direct can_submit_task() call
  submit_log,       \* per task: the executors submit_task was called on
  term_writes,      \* per task: updates written from the first terminal one on
  cycle             \* calls made by the current iteration of the driver loop

vars == <<purpose, remote_kind, max_tasks, initialized, pool, active_futures,
          fut, handles, ready, gs_state, gs_result, task_futures, pc,
          next_task, task_executor, poll_items, state, result, exc, loop_exc,
          init_ok, finalize_calls, started, last_call, seen_state,
          mgr_executors, mgr_last, last_check, submit_log, term_writes,
          cycle>>

config_vars == <<purpose, remote_kind, max_tasks>>
pool_vars == <<initialized, pool, active_futures>>
graph_vars == <<ready, gs_state, gs_result>>
local_vars == <<next_task, task_executor, poll_items, state, result>>
outcome_vars == <<exc, loop_exc, init_ok, finalize_calls>>
api_vars == <<mgr_executors, mgr_last, last_check>>
audit_vars == <<submit_log, term_writes, cycle>>
run_vars == <<graph_vars, task_futures, pc, local_vars, outcome_vars,
              audit_vars>>

\* ------------------------------------------------------------ helpers
Result(t) == t

SeqToSet(s) == {s[i] : i \in 1..Len(s)}

RECURSIVE Filter(_, _)
Filter(s, keep) ==
  IF s = <<>> THEN <<>>
  ELSE IF Head(s) \in keep THEN <<Head(s)>> \o Filter(Tail(s), keep)
       ELSE Filter(Tail(s), keep)

FutureDone(f) == f \in {"ok", "err"}

\* ------------------------------------------------------- task handles
GetState(kind, f) ==
  IF kind = "direct" THEN "SUCCESSFUL"
  ELSE IF FutureDone(f)
       THEN IF f = "err" THEN "FAILED" ELSE "SUCCESSFUL"
       ELSE "RUNNING"

GetResult(kind, f, t) ==
  IF kind = "direct" THEN [raised |-> FALSE, value |-> Result(t)]
  ELSE IF ~FutureDone(f) THEN [raised |-> FALSE, value |-> None]
       ELSE IF f = "err" THEN [raised |-> TRUE, value |-> None]
            ELSE [raised |-> FALSE, value |-> Result(t)]

\* ---------------------------------------------------------- executors
\* Variant: nothing is pruned before the capacity test.
PruneActiveFuturesKeepAll(af, f) == af

\* Variant: the test of done() is inverted.
PruneActiveFuturesKeepsDone(af, f) ==
  Filter(af, {t \in Tasks : FutureDone(f[t])})

PruneActiveFutures(af, f) == Filter(af, {t \in Tasks : ~FutureDone(f[t])})

\* Variant: the capacity test admits one submission too many.
CanSubmitTaskOffByOne(af, m) == Len(af) <= m

CanSubmitTask(af, m) == Len(af) < m

NoPool == [class |-> "None", shutdown |-> FALSE]

CreatePool(kind) ==
  [class |-> IF kind = "MultiThreadingExecutor"
             THEN "ThreadPoolExecutor" ELSE "ProcessPoolExecutor",
   shutdown |-> FALSE]

\* Variant: init() without the initialized test.
PoolInitUnguarded(i, p) ==
  [initialized |-> TRUE, pool |-> CreatePool(remote_kind), raised |-> FALSE]

PoolInit(i, p) ==
  IF ~i THEN [initialized |-> TRUE, pool |-> CreatePool(remote_kind),
              raised |-> FALSE]
  ELSE [initialized |-> i, pool |-> p, raised |-> TRUE]

PoolFinalize(i, p) ==
  IF i THEN [initialized |-> FALSE, pool |-> [p EXCEPT !.shutdown = TRUE],
             raised |-> FALSE]
  ELSE [initialized |-> i, pool |-> p, raised |-> TRUE]

\* Variant: shutdown(wait=False).
ShutdownNoWait == TRUE

\* pool.shutdown() returns once every submitted future is done
ShutdownReturns == \A t \in Tasks : fut[t] # "running"

\* Variant: the routing test is inverted.
GetExecutorForTaskInverted(p) ==
  IF p # "EXECUTE_SINGLE" THEN "local_executor" ELSE "remote_executor"

GetExecutorForTask(p) ==
  IF p = "EXECUTE_SINGLE" THEN "local_executor" ELSE "remote_executor"

\* -------------------------------------------------------- graph state
GraphIsTerminal == \A t \in Tasks : TaskStateIsTerminal(gs_state[t])

\* ---------------------------------------------------------------- Init
NoCall == [executor |-> "none", op |-> "none", was_started |-> FALSE,
           raised |-> FALSE, unchanged |-> TRUE]

NoManagerCall == [op |-> "none", before |-> <<>>, after |-> <<>>,
                  raised |-> 0, calls |-> <<>>]

NoCheck == [executor |-> "none", op |-> "none", before |-> <<>>,
            not_done |-> {}, after |-> <<>>, answer |-> FALSE]

\* What a direct call on an executor did to the executor's active_futures.
Checked(e, op, before, after, answer) ==
  [executor |-> e, op |-> op,
   before |-> IF e = "local_executor" THEN <<>> ELSE before,
   not_done |-> IF e = "local_executor" THEN {}
                ELSE {t \in Tasks : ~FutureDone(fut[t])},
   after |-> IF e = "local_executor" THEN <<>> ELSE after,
   answer |-> answer]

NoCycle == [pulls |-> 0, submits |-> 0, start |-> <<>>, states |-> <<>>,
            results |-> <<>>, updates |-> <<>>]

InitRun ==
  /\ purpose \in [Tasks -> Purposes]
  /\ remote_kind \in PoolKinds
  /\ max_tasks \in 1..MaxPoolSize
  /\ initialized = FALSE
  /\ pool = NoPool
  /\ active_futures = <<>>
  /\ fut = [t \in Tasks |-> "none"]
  /\ handles = [t \in Tasks |-> "none"]
  /\ ready = Tasks
  /\ gs_state = [t \in Tasks |-> "PENDING"]
  /\ gs_result = [t \in Tasks |-> None]
  /\ task_futures = <<>>
  /\ pc = "idle"
  /\ next_task = None
  /\ task_executor = "none"
  /\ poll_items = <<>>
  /\ state = "PENDING"
  /\ result = None
  /\ exc = "none"
  /\ loop_exc = "none"
  /\ init_ok = FALSE
  /\ finalize_calls = 0
  /\ started = [e \in ExecutorIds |-> FALSE]
  /\ last_call = NoCall
  /\ seen_state = [t \in Tasks |-> "none"]
  /\ mgr_last = NoManagerCall
  /\ last_check = NoCheck
  /\ submit_log = [t \in Tasks |-> <<>>]
  /\ term_writes = [t \in Tasks |-> 0]
  /\ cycle = NoCycle

Init ==
  /\ InitRun
  /\ mgr_executors = <<>>


\* ------------------------------------------- direct lifecycle calls
\* A caller invokes init() on an executor before the run.
ExecutorInit(e) ==
  /\ pc = "idle"
  /\ IF e = "local_executor"
     THEN /\ started' = [started EXCEPT ![e] = TRUE]
          /\ last_call' = [executor |-> e, op |-> "init",
                           was_started |-> started[e], raised |-> FALSE,
                           unchanged |-> TRUE]
          /\ UNCHANGED <<initialized, pool>>
     ELSE LET r == PoolInit(initialized, pool) IN
          /\ initialized' = r.initialized
          /\ pool' = r.pool
          /\ started' = [started EXCEPT ![e] = IF r.raised THEN @ ELSE TRUE]
          /\ last_call' = [executor |-> e, op |-> "init",
                           was_started |-> started[e], raised |-> r.raised,
                           unchanged |-> (r.initialized = initialized
                                          /\ r.pool = pool)]
  /\ last_check' = Checked(e, "init", active_futures, active_futures,
                         ~last_call'.raised)
  /\ UNCHANGED <<config_vars, mgr_executors, mgr_last, audit_vars,
                 active_futures, fut, handles, graph_vars,
                 task_futures, pc, local_vars, outcome_vars, seen_state>>

\* A caller invokes finalize() on an executor before the run.
ExecutorFinalize(e) ==
  /\ pc = "idle"
  /\ IF e = "local_executor"
     THEN /\ started' = [started EXCEPT ![e] = FALSE]
          /\ last_call' = [executor |-> e, op |-> "finalize",
                           was_started |-> started[e], raised |-> FALSE,
                           unchanged |-> TRUE]
          /\ UNCHANGED <<initialized, pool>>
     ELSE LET r == PoolFinalize(initialized, pool) IN
          /\ initialized => ShutdownReturns
          /\ initialized' = r.initialized
          /\ pool' = r.pool
          /\ started' = [started EXCEPT ![e] = IF r.raised THEN @ ELSE FALSE]
          /\ last_call' = [executor |-> e, op |-> "finalize",
                           was_started |-> started[e], raised |-> r.raised,
                           unchanged |-> (r.initialized = initialized
                                          /\ r.pool = pool)]
  /\ last_check' = Checked(e, "finalize", active_futures, active_futures,
                         ~last_call'.raised)
  /\ UNCHANGED <<config_vars, mgr_executors, mgr_last, audit_vars,
                 active_futures, fut, handles, graph_vars,
                 task_futures, pc, local_vars, outcome_vars, seen_state>>

\* ------------------------------------------------- run_until_complete
\* Variant: init() is called inside the try block.
RaiseBeforeTryIntoFinally(e) ==
  /\ pc' = "finalize"
  /\ exc' = e
  /\ UNCHANGED <<loop_exc, finalize_calls>>

\* An exception raised before the try block leaves the function at once.
RaiseBeforeTry(e) ==
  /\ pc' = "done"
  /\ exc' = e
  /\ UNCHANGED <<loop_exc, finalize_calls>>

\* Variant: the loop is not protected by a finally clause.
RaiseInTryNoFinally(e) ==
  /\ pc' = "done"
  /\ exc' = e
  /\ loop_exc' = e
  /\ UNCHANGED <<init_ok, finalize_calls>>

\* An exception raised inside the try block enters the finally clause.
RaiseInTry(e) ==
  /\ pc' = "finalize"
  /\ exc' = e
  /\ loop_exc' = e
  /\ UNCHANGED <<init_ok, finalize_calls>>

\* The for loop over task_futures.copy().items() starts with items tf.
StartPoll(tf) ==
  /\ poll_items' = tf
  /\ pc' = IF tf = <<>> THEN "loop" ELSE "get_state"

\* self.execution_manager.init()
ManagerInit ==
  /\ pc = "idle"
  /\ LET r == PoolInit(initialized, pool) IN
     /\ initialized' = r.initialized
     /\ pool' = r.pool
     /\ started' = [started EXCEPT !["local_executor"] = TRUE,
                                   !["remote_executor"] =
                                     IF r.raised THEN @ ELSE TRUE]
     /\ init_ok' = ~r.raised
     /\ IF r.raised
        THEN RaiseBeforeTry("RuntimeError")
        ELSE /\ pc' = "loop"
             /\ UNCHANGED <<exc, loop_exc, finalize_calls>>
  /\ last_call' = NoCall
  /\ last_check' = NoCheck
  /\ UNCHANGED <<config_vars, mgr_executors, mgr_last, audit_vars,
                 active_futures, fut, handles, graph_vars,
                 task_futures, local_vars, seen_state>>

\* while not GraphState.is_terminal(self.execution_state.get_graph_state())
LoopTest ==
  /\ pc = "loop"
  /\ pc' = IF GraphIsTerminal THEN "finalize" ELSE "pull"
  /\ cycle' = NoCycle
  /\ UNCHANGED <<config_vars, api_vars, submit_log, term_writes,
                 pool_vars, fut, handles, graph_vars,
                 task_futures, local_vars, outcome_vars, started, last_call,
                 seen_state>>

\* next_task = self.execution_state.release_next_task(), a unit is returned
ReleaseNextTask(t) ==
  /\ pc = "pull"
  /\ t \in ready
  /\ ready' = ready \ {t}
  /\ next_task' = t
  /\ pc' = "route"
  /\ cycle' = [cycle EXCEPT !.pulls = @ + 1]
  /\ UNCHANGED <<config_vars, api_vars, submit_log, term_writes,
                 pool_vars, fut, handles, gs_state, gs_result,
                 task_futures, task_executor, poll_items, state, result,
                 outcome_vars, started, last_call, seen_state>>

\* next_task = self.execution_state.release_next_task(), nothing is ready
ReleaseNothing ==
  /\ pc = "pull"
  /\ next_task' = None
  /\ StartPoll(task_futures)
  /\ cycle' = [cycle EXCEPT !.pulls = @ + 1, !.start = task_futures]
  /\ UNCHANGED <<config_vars, api_vars, submit_log, term_writes,
                 pool_vars, fut, handles, graph_vars,
                 task_futures, task_executor, state, result, outcome_vars,
                 started, last_call, seen_state>>

\* task_executor = self.execution_manager.get_executor_for_task(next_task)
Route ==
  /\ pc = "route"
  /\ task_executor' = GetExecutorForTask(purpose[next_task])
  /\ pc' = "admit"
  /\ UNCHANGED <<config_vars, api_vars, audit_vars,
                 pool_vars, fut, handles, graph_vars,
                 task_futures, next_task, poll_items, state, result,
                 outcome_vars, started, last_call, seen_state>>

\* if task_executor.can_submit_task()
Admit ==
  /\ pc = "admit"
  /\ IF task_executor = "local_executor"
     THEN /\ pc' = "submit"
          /\ UNCHANGED active_futures
     ELSE LET pruned == PruneActiveFutures(active_futures, fut) IN
          /\ active_futures' = pruned
          /\ pc' = IF CanSubmitTask(pruned, max_tasks)
                   THEN "submit" ELSE "reject"
  /\ UNCHANGED <<config_vars, api_vars, audit_vars,
                 initialized, pool, fut, handles, graph_vars,
                 task_futures, local_vars, outcome_vars, started, last_call,
                 seen_state>>

\* self.task_futures[key] = handle
DictSet(tf, key) == IF key \in SeqToSet(tf) THEN tf ELSE Append(tf, key)

\* Variant: the handle is not dropped from the mapping.
DictDelKeeps(tf, key) == tf

\* del self.task_futures[key]
DictDel(tf, key) == Filter(tf, SeqToSet(tf) \ {key})

\* SynchronousLocalTaskExecutor.submit_task: the unit runs inline
SubmitLocal(ok) ==
  /\ pc = "submit"
  /\ task_executor = "local_executor"
  /\ IF ok
     THEN /\ handles' = [handles EXCEPT ![next_task] = "direct"]
          /\ task_futures' = DictSet(task_futures, next_task)
          /\ StartPoll(task_futures')
          /\ UNCHANGED outcome_vars
     ELSE /\ RaiseInTry("TaskError")
          /\ UNCHANGED <<handles, task_futures, poll_items>>
  /\ submit_log' = [submit_log EXCEPT ![next_task] = Append(@, task_executor)]
  /\ cycle' = [cycle EXCEPT !.submits = @ + 1,
                          !.start = IF ok THEN task_futures' ELSE @]
  /\ UNCHANGED <<config_vars, api_vars, term_writes,
                 pool_vars, fut, graph_vars, next_task,
                 task_executor, state, result, started, last_call,
                 seen_state>>

\* Variant: the else is missing, a submitted unit is rejected as well.
SubmitRemoteAlsoRejects ==
  /\ pc = "submit"
  /\ task_executor = "remote_executor"
  /\ fut' = [fut EXCEPT ![next_task] = "running"]
  /\ active_futures' = Append(active_futures, next_task)
  /\ handles' = [handles EXCEPT ![next_task] = "wrapped"]
  /\ task_futures' = DictSet(task_futures, next_task)
  /\ ready' = ready \cup {next_task}
  /\ StartPoll(task_futures')
  /\ submit_log' = [submit_log EXCEPT ![next_task] = Append(@, task_executor)]
  /\ cycle' = [cycle EXCEPT !.submits = @ + 1, !.start = task_futures']
  /\ UNCHANGED <<config_vars, api_vars, term_writes, initialized, pool,
                 gs_state, gs_result, next_task, task_executor, state, result,
                 outcome_vars, started, last_call, seen_state>>

\* Variant: the future is not appended to active_futures.
SubmitRemoteUntracked ==
  /\ pc = "submit"
  /\ task_executor = "remote_executor"
  /\ fut' = [fut EXCEPT ![next_task] = "running"]
  /\ handles' = [handles EXCEPT ![next_task] = "wrapped"]
  /\ task_futures' = DictSet(task_futures, next_task)
  /\ StartPoll(task_futures')
  /\ submit_log' = [submit_log EXCEPT ![next_task] = Append(@, task_executor)]
  /\ cycle' = [cycle EXCEPT !.submits = @ + 1, !.start = task_futures']
  /\ UNCHANGED <<config_vars, api_vars, term_writes, active_futures,
                 initialized, pool, graph_vars, next_task,
                 task_executor, state, result, outcome_vars, started,
                 last_call, seen_state>>

\* PoolExecutor.submit_task: the unit is handed to the pool
SubmitRemote ==
  /\ pc = "submit"
  /\ task_executor = "remote_executor"
  /\ fut' = [fut EXCEPT ![next_task] = "running"]
  /\ active_futures' = Append(active_futures, next_task)
  /\ handles' = [handles EXCEPT ![next_task] = "wrapped"]
  /\ task_futures' = DictSet(task_futures, next_task)
  /\ StartPoll(task_futures')
  /\ submit_log' = [submit_log EXCEPT ![next_task] = Append(@, task_executor)]
  /\ cycle' = [cycle EXCEPT !.submits = @ + 1, !.start = task_futures']
  /\ UNCHANGED <<config_vars, api_vars, term_writes,
                 initialized, pool, graph_vars, next_task,
                 task_executor, state, result, outcome_vars, started,
                 last_call, seen_state>>

\* self.execution_state.reject_task(task_to_reject=next_task)
Reject ==
  /\ pc = "reject"
  /\ ready' = ready \cup {next_task}
  /\ StartPoll(task_futures)
  /\ cycle' = [cycle EXCEPT !.start = task_futures]
  /\ UNCHANGED <<config_vars, api_vars, submit_log, term_writes,
                 pool_vars, fut, handles, gs_state, gs_result,
                 task_futures, next_task, task_executor, state, result,
                 outcome_vars, started, last_call, seen_state>>

\* state = task_future.get_state()
PollGetState ==
  /\ pc = "get_state"
  /\ LET t == Head(poll_items) IN
     /\ state' = GetState(handles[t], fut[t])
     /\ seen_state' = [seen_state EXCEPT ![t] = state']
  /\ pc' = "get_result"
  /\ cycle' = [cycle EXCEPT !.states = Append(@, Head(poll_items))]
  /\ UNCHANGED <<config_vars, api_vars, submit_log, term_writes,
                 pool_vars, fut, handles, graph_vars,
                 task_futures, next_task, task_executor, poll_items, result,
                 outcome_vars, started, last_call>>

\* result = task_future.get_result()
PollGetResult ==
  /\ pc = "get_result"
  /\ LET t == Head(poll_items)
         r == GetResult(handles[t], fut[t], t) IN
     IF r.raised
     THEN /\ RaiseInTry("TaskError")
          /\ UNCHANGED result
     ELSE /\ result' = r.value
          /\ pc' = "update"
          /\ UNCHANGED outcome_vars
  /\ cycle' = [cycle EXCEPT !.results = Append(@, Head(poll_items))]
  /\ UNCHANGED <<config_vars, api_vars, submit_log, term_writes,
                 pool_vars, fut, handles, graph_vars,
                 task_futures, next_task, task_executor, poll_items, state,
                 started, last_call, seen_state>>

\* self.execution_state.update_task_state(task_name, state, result)
\* if TaskState.is_terminal(state): del self.task_futures[task_name]
PollUpdate ==
  /\ pc = "update"
  /\ LET t == Head(poll_items) IN
     /\ gs_state' = [gs_state EXCEPT ![t] = state]
     /\ gs_result' = [gs_result EXCEPT ![t] = result]
     /\ task_futures' = IF TaskStateIsTerminal(state)
                        THEN DictDel(task_futures, t) ELSE task_futures
  /\ StartPoll(Tail(poll_items))
  /\ cycle' = [cycle EXCEPT !.updates = Append(@, Head(poll_items))]
  /\ term_writes' =
       [term_writes EXCEPT ![Head(poll_items)] =
          IF (TaskStateIsTerminal(state) \/ @ > 0) /\ @ < 2
          THEN @ + 1 ELSE @]
  /\ UNCHANGED <<config_vars, api_vars, submit_log,
                 pool_vars, fut, handles, ready, next_task,
                 task_executor, state, result, outcome_vars, started,
                 last_call, seen_state>>

\* A call into the graph-state component raises.
CollaboratorRaises ==
  /\ pc \in {"loop", "pull", "reject", "update"}
  /\ RaiseInTry("CollaboratorError")
  /\ UNCHANGED <<config_vars, api_vars, audit_vars,
                 pool_vars, fut, handles, graph_vars,
                 task_futures, local_vars, started, last_call, seen_state>>

\* finally: self.execution_manager.finalize()
ManagerFinalize ==
  /\ pc = "finalize"
  /\ initialized => ShutdownReturns
  /\ LET r == PoolFinalize(initialized, pool) IN
     /\ initialized' = r.initialized
     /\ pool' = r.pool
     /\ started' = [started EXCEPT !["local_executor"] = FALSE,
                                   !["remote_executor"] =
                                     IF r.raised THEN @ ELSE FALSE]
     /\ exc' = IF r.raised THEN "RuntimeError" ELSE exc
  /\ finalize_calls' = finalize_calls + 1
  /\ pc' = "done"
  /\ UNCHANGED <<config_vars, api_vars, audit_vars,
                 active_futures, fut, handles, graph_vars,
                 task_futures, local_vars, loop_exc, init_ok, last_call,
                 seen_state>>

\* ------------------------------------------------------ pool workers
\* Variant: a worker may run the task of a done future again.
FutureCanCompleteAgain(f) == f # "none"

\* A worker runs base_execute_task once; the future is then done for good.
FutureCanComplete(f) == f = "running"

WorkerComplete(t, ok) ==
  /\ FutureCanComplete(fut[t])
  /\ handles[t] = "wrapped"
  /\ fut' = [fut EXCEPT ![t] = IF ok THEN "ok" ELSE "err"]
  /\ UNCHANGED <<config_vars, api_vars, audit_vars,
                 pool_vars, handles, graph_vars, task_futures,
                 pc, local_vars, outcome_vars, started, last_call,
                 seen_state>>

\* Any holder of an issued handle calls get_state() on it.
ObserveState(t) ==
  /\ handles[t] # "none"
  /\ seen_state' = [seen_state EXCEPT ![t] = GetState(handles[t], fut[t])]
  /\ UNCHANGED <<config_vars, api_vars, audit_vars,
                 pool_vars, fut, handles, graph_vars,
                 task_futures, pc, local_vars, outcome_vars, started,
                 last_call>>

Next ==
  \/ \E e \in ExecutorIds : ExecutorInit(e)
  \/ \E e \in ExecutorIds : ExecutorFinalize(e)
  \/ ManagerInit
  \/ LoopTest
  \/ \E t \in Tasks : ReleaseNextTask(t)
  \/ ReleaseNothing
  \/ Route
  \/ Admit
  \/ \E ok \in BOOLEAN : SubmitLocal(ok)
  \/ SubmitRemote
  \/ Reject
  \/ PollGetState
  \/ PollGetResult
  \/ PollUpdate
  \/ CollaboratorRaises
  \/ ManagerFinalize
  \/ \E t \in Tasks, ok \in BOOLEAN : WorkerComplete(t, ok)
  \/ \E t \in Tasks : ObserveState(t)

Spec == Init /\ [][Next]_vars

TypeOK ==
  /\ purpose \in [Tasks -> Purposes]
  /\ remote_kind \in PoolKinds
  /\ max_tasks \in 1..MaxPoolSize
  /\ initialized \in BOOLEAN
  /\ pool \in [class : {"None", "ThreadPoolExecutor", "ProcessPoolExecutor"},
              shutdown : BOOLEAN]
  /\ SeqToSet(active_futures) \subseteq Tasks
  /\ fut \in [Tasks -> {"none", "running", "ok", "err"}]
  /\ handles \in [Tasks -> {"none", "direct", "wrapped"}]
  /\ ready \subseteq Tasks
  /\ gs_state \in [Tasks -> TaskStates]
  /\ gs_result \in [Tasks -> {None} \cup Tasks]
  /\ SeqToSet(task_futures) \subseteq Tasks
  /\ pc \in {"idle", "loop", "pull", "route", "admit", "submit", "reject",
             "get_state", "get_result", "update", "finalize", "done"}
  /\ next_task \in {None} \cup Tasks
  /\ finalize_calls \in 0..1

\* ===================================================== properties
RunningRemote == {t \in Tasks : handles[t] = "wrapped" /\ fut[t] = "running"}

TrackedRunning ==
  {i \in 1..Len(active_futures) : fut[active_futures[i]] = "running"}

\* C1: at no time do more than max_tasks submissions to the pooled
\* executor remain not done, whether counted over all its submissions or
\* over the futures tracked in active_futures.
C1_AdmissionInvariant ==
  /\ Cardinality(RunningRemote) <= max_tasks
  /\ Cardinality(TrackedRunning) <= max_tasks
  /\ Len(active_futures) <= max_tasks

C1_Witness ==
  /\ pc = "reject"
  /\ Cardinality(RunningRemote) = max_tasks
  /\ Cardinality(TrackedRunning) = max_tasks

\* C2: the failure of a submitted task is never propagated out of the
\* run_until_complete loop, for the direct and for the pooled executor.
C2_TaskFailureContained ==
  /\ exc # "TaskError"
  /\ loop_exc # "TaskError"

\* C3: for a handle wrapping a future that completed by raising, get_state()
\* returns FAILED and get_result() returns None without raising.
C3_FailedHandleResultAbsent ==
  \A t \in Tasks :
    (handles[t] = "wrapped" /\ fut[t] = "err") =>
      /\ GetState(handles[t], fut[t]) = "FAILED"
      /\ ~GetResult(handles[t], fut[t], t).raised
      /\ GetResult(handles[t], fut[t], t).value = None

\* C4: the result the driver reads after get_state() is defined if and only
\* if that get_state() returned SUCCESSFUL, and every pair pushed to the
\* graph state has a defined result only with state SUCCESSFUL.
C4_ResultIffSuccessful ==
  /\ pc = "update" => (result # None <=> state = "SUCCESSFUL")
  /\ \A t \in Tasks : gs_result[t] # None => gs_state[t] = "SUCCESSFUL"

\* C5: once get_state() of a handle has returned SUCCESSFUL or FAILED every
\* later call returns the same state; the observed state never goes back
\* from a terminal state, and RUNNING is followed only by RUNNING,
\* SUCCESSFUL or FAILED.
C5_TerminalStateClosure ==
  [][\A t \in Tasks :
       /\ TaskStateIsTerminal(seen_state[t]) => seen_state'[t] = seen_state[t]
       /\ seen_state[t] = "RUNNING" =>
            seen_state'[t] \in {"RUNNING", "SUCCESSFUL", "FAILED"}]_vars

C5_Witness ==
  \E t, u \in Tasks :
    /\ handles[t] = "wrapped" /\ seen_state[t] = "FAILED"
    /\ handles[u] = "direct" /\ seen_state[u] = "SUCCESSFUL"

C7_CleanupOnLoopExit ==
  /\ (pc = "done" /\ init_ok) => (finalize_calls = 1 /\ exc = loop_exc)
  /\ pc # "done" => finalize_calls = 0

C7_Witness ==
  /\ pc = "done"
  /\ init_ok
  /\ finalize_calls = 1
  /\ loop_exc = "CollaboratorError"
  /\ exc = "CollaboratorError"

\* C8 (as stated): whenever run_until_complete propagates an exception,
\* raised before or during the loop, finalize() has been attempted.
C8_FinalizeAlwaysAttempted ==
  (pc = "done" /\ exc # "none") => finalize_calls >= 1

\* C8 (amended): an exception raised during the loop propagates after
\* finalize() was attempted once; when execution_manager.init() raises
\* before the loop, finalize() is not attempted at all.
C8_FinalizeOnlyAfterInit ==
  (pc = "done" /\ exc # "none") =>
    IF init_ok THEN finalize_calls = 1
    ELSE finalize_calls = 0 /\ exc = "RuntimeError" /\ loop_exc = "none"

C8_Witness ==
  /\ pc = "done"
  /\ ~init_ok
  /\ exc = "RuntimeError"
  /\ finalize_calls = 0

\* C9: a unit routed to the pooled executor is submitted in the cycle of its
\* pull if and only if fewer than max_tasks earlier submissions are not done
\* at the admission check; otherwise it is handed back by reject_task, gets
\* no handle, and no state is pushed for it.
C9_BackpressureDeferral ==
  /\ [](\A t \in Tasks : handles[t] = "none" =>
          (gs_state[t] = "PENDING" /\ t \notin SeqToSet(task_futures)))
  /\ [][/\ (pc = "admit" /\ pc' # "admit"
            /\ task_executor = "remote_executor") =>
             pc' = IF Cardinality(RunningRemote) < max_tasks
                   THEN "submit" ELSE "reject"
        /\ (pc = "submit" /\ pc' # "submit"
            /\ task_executor = "remote_executor") =>
             /\ handles'[next_task] = "wrapped"
             /\ next_task \in SeqToSet(task_futures')
        /\ (pc = "reject" /\ pc' \notin {"reject", "finalize"}) =>
             /\ next_task \in ready'
             /\ handles' = handles
             /\ task_futures' = task_futures
             /\ gs_state' = gs_state /\ gs_result' = gs_result]_vars

C9_Witness ==
  /\ max_tasks = 1
  /\ pc = "reject"
  /\ \E t \in Tasks : t # next_task /\ fut[t] = "running"
  /\ handles[next_task] = "none"

\* C10: get_executor_for_task returns the local executor for EXECUTE_SINGLE
\* and the remote executor for every other purpose, and the call changes no
\* manager or executor state.
C10_RoutingDeterminism ==
  /\ [](pc \in {"admit", "submit", "reject"} =>
          task_executor = IF purpose[next_task] = "EXECUTE_SINGLE"
                          THEN "local_executor" ELSE "remote_executor")
  /\ [][(pc = "route" /\ pc' = "admit") =>
          UNCHANGED <<initialized, pool, active_futures, max_tasks,
                      started, fut, handles>>]_vars

C10_Witness ==
  /\ pc = "admit"
  /\ task_executor = "remote_executor"
  /\ purpose[next_task] = "EXECUTE_BLOCK"

\* ------------------------------------------------------- liveness
\* The steps of run_until_complete that do not pull a unit.
DriverStep ==
  \/ ManagerInit
  \/ LoopTest
  \/ ReleaseNothing
  \/ Route
  \/ Admit
  \/ \E ok \in BOOLEAN : SubmitLocal(ok)
  \/ SubmitRemote
  \/ Reject
  \/ PollGetState
  \/ PollGetResult
  \/ PollUpdate
  \/ ManagerFinalize

\* A run in which no collaborator call raises and the executors are fresh.
LiveNext ==
  \/ DriverStep
  \/ \E t \in Tasks : ReleaseNextTask(t)
  \/ \E t \in Tasks, ok \in BOOLEAN : WorkerComplete(t, ok)

\* The driver keeps stepping, the graph state hands out a ready unit again
\* and again, and every submitted task's execution completes.
LiveSpec ==
  /\ Init
  /\ [][LiveNext]_vars
  /\ WF_vars(DriverStep)
  /\ SF_vars(\E t \in Tasks : ReleaseNextTask(t))
  /\ \A t \in Tasks : WF_vars(\E ok \in BOOLEAN : WorkerComplete(t, ok))

\* C11: under these fairness conditions every handle issued by the pool has
\* its terminal state written to the graph state eventually, and
\* run_until_complete eventually returns normally.
C11_EventuallyWrittenBackAndReturns ==
  /\ \A t \in Tasks :
       [](handles[t] = "wrapped" => <>TaskStateIsTerminal(gs_state[t]))
  /\ <>(pc = "done" /\ exc = "none")

\* ------------------------------------- an execution manager on its own
ExecutorKinds == {"SynchronousLocalTaskExecutor", "PoolExecutor"}

NewExecutor(kind) == [kind |-> kind, initialized |-> FALSE, pool |-> NoPool]

ExecutorLists ==
  UNION {[1..n -> {NewExecutor(k) : k \in ExecutorKinds}] : n \in 1..MaxExecutors}

\* executor.init() or executor.finalize() on one executor object
ExecutorCall(op, e) ==
  IF e.kind = "SynchronousLocalTaskExecutor"
  THEN [exec |-> e, raised |-> FALSE]
  ELSE LET r == IF op = "init" THEN PoolInit(e.initialized, e.pool)
                ELSE PoolFinalize(e.initialized, e.pool) IN
       [exec |-> [kind |-> e.kind, initialized |-> r.initialized,
                  pool |-> r.pool],
        raised |-> r.raised]

\* Variant: a raising executor does not stop the loop over the executors.
RECURSIVE FanOutContinues(_, _, _)
FanOutContinues(op, execs, i) ==
  IF i > Len(execs) THEN [execs |-> execs, raised |-> 0, calls |-> <<>>]
  ELSE LET r == ExecutorCall(op, execs[i])
           rest == FanOutContinues(op, [execs EXCEPT ![i] = r.exec], i + 1) IN
       [execs |-> rest.execs,
        raised |-> IF r.raised THEN i ELSE rest.raised,
        calls |-> <<i>> \o rest.calls]

\* for executor in self.executors: executor.init() / executor.finalize()
RECURSIVE FanOut(_, _, _)
FanOut(op, execs, i) ==
  IF i > Len(execs) THEN [execs |-> execs, raised |-> 0, calls |-> <<>>]
  ELSE LET r == ExecutorCall(op, execs[i]) IN
       IF r.raised
       THEN [execs |-> execs, raised |-> i, calls |-> <<i>>]
       ELSE LET rest == FanOut(op, [execs EXCEPT ![i] = r.exec], i + 1) IN
            [execs |-> rest.execs, raised |-> rest.raised,
             calls |-> <<i>> \o rest.calls]

\* ExecutionManager.init() or ExecutionManager.finalize()
ManagerCall(op) ==
  /\ LET r == FanOut(op, mgr_executors, 1) IN
     /\ mgr_executors' = r.execs
     /\ mgr_last' = [op |-> op, before |-> mgr_executors, after |-> r.execs,
                     raised |-> r.raised, calls |-> r.calls]
  /\ UNCHANGED <<config_vars, pool_vars, fut, handles, run_vars, started,
                 last_call, seen_state, last_check>>

\* A caller invokes init() or finalize() on one of the manager's executors.
OwnedExecutorCall(i, op) ==
  /\ i \in 1..Len(mgr_executors)
  /\ LET r == ExecutorCall(op, mgr_executors[i]) IN
     mgr_executors' = [mgr_executors EXCEPT ![i] = r.exec]
  /\ mgr_last' = NoManagerCall
  /\ UNCHANGED <<config_vars, pool_vars, fut, handles, run_vars, started,
                 last_call, seen_state, last_check>>

ManagerInitState ==
  /\ InitRun
  /\ mgr_executors \in ExecutorLists

ManagerNext ==
  \/ \E op \in {"init", "finalize"} : ManagerCall(op)
  \/ \E i \in 1..MaxExecutors, op \in {"init", "finalize"} :
       OwnedExecutorCall(i, op)

ManagerSpec == ManagerInitState /\ [][ManagerNext]_vars

\* The call op raises on executor e.
MustRaise(op, e) ==
  /\ e.kind = "PoolExecutor"
  /\ IF op = "init" THEN e.initialized ELSE ~e.initialized

\* The state of executor e after a successful call op.
HasEffect(op, b, a) ==
  /\ a.kind = b.kind
  /\ IF b.kind = "SynchronousLocalTaskExecutor" THEN a = b
     ELSE IF op = "init"
          THEN a.initialized /\ a.pool # NoPool /\ ~a.pool.shutdown
          ELSE ~a.initialized /\ a.pool.shutdown
               /\ a.pool.class = b.pool.class

\* C12: the manager calls its executors in registration order; when the
\* call on the k-th raises, the exception propagates, the executors before
\* k keep the effect of the call and the executors from k on are untouched,
\* those after k not even called.
C12_FanOutInOrderNoRollback ==
  mgr_last.op # "none" =>
    LET b == mgr_last.before
        a == mgr_last.after
        n == Len(b)
        bad == {i \in 1..n : MustRaise(mgr_last.op, b[i])}
        k == IF bad = {} THEN 0
             ELSE CHOOSE i \in bad : \A j \in bad : i <= j
        last == IF k = 0 THEN n ELSE k IN
    /\ mgr_last.raised = k
    /\ mgr_last.calls = [i \in 1..last |-> i]
    /\ Len(a) = n
    /\ a = mgr_executors
    /\ \A i \in 1..n :
         IF k = 0 \/ i < k THEN HasEffect(mgr_last.op, b[i], a[i])
         ELSE a[i] = b[i]

C12_Witness ==
  /\ mgr_last.op = "init"
  /\ Len(mgr_last.before) = 3
  /\ mgr_last.raised = 2
  /\ ~mgr_last.before[1].initialized /\ mgr_last.after[1].initialized
  /\ mgr_last.before[3].kind = "PoolExecutor"
  /\ ~mgr_last.after[3].initialized

\* ---------------------------------------------------- driver bookkeeping
ExpectedExecutor(t) ==
  IF purpose[t] = "EXECUTE_SINGLE" THEN "local_executor" ELSE "remote_executor"

\* C13: every task is passed to submit_task at most once, and then to the
\* executor its purpose routes to; a pulled unit goes through the admission
\* check and is in that cycle either submitted or rejected, never both.
C13_SingleSubmission ==
  /\ [](\A t \in Tasks :
          /\ Len(submit_log[t]) <= 1
          /\ \A i \in 1..Len(submit_log[t]) :
               submit_log[t][i] = ExpectedExecutor(t))
  /\ [](pc \in {"route", "admit", "submit", "reject"} =>
          (next_task \in Tasks /\ next_task \notin ready
           /\ submit_log[next_task] = <<>>))
  /\ [][/\ (pc = "pull" /\ pc' = "route") => next_task' \in ready
        /\ (pc = "route" /\ pc' # "route") => pc' = "admit"
        /\ (pc = "admit" /\ pc' # "admit") => pc' \in {"submit", "reject"}
        /\ (pc = "submit" /\ pc' # "submit") =>
             /\ submit_log'[next_task] = <<task_executor>>
             /\ ready' = ready
        /\ (pc = "reject" /\ pc' \notin {"reject", "finalize"}) =>
             /\ ready' = ready \cup {next_task}
             /\ submit_log' = submit_log]_vars

C13_Witness ==
  /\ max_tasks = 1
  /\ \A t \in Tasks : submit_log[t] = <<"remote_executor">>

\* C14: a unit tagged EXECUTE_SINGLE goes to the local executor; its direct
\* handle only ever reports SUCCESSFUL, and outside the poll step of the
\* cycle of its pull it has had (SUCCESSFUL, result) written once and is not
\* in the in-flight mapping.
C14_DirectWithinOneCycle ==
  \A t \in Tasks :
    /\ (purpose[t] = "EXECUTE_SINGLE" /\ submit_log[t] # <<>>) =>
         submit_log[t] = <<"local_executor">>
    /\ handles[t] = "direct" =>
         /\ purpose[t] = "EXECUTE_SINGLE"
         /\ seen_state[t] \in {"none", "SUCCESSFUL"}
         /\ t \in SeqToSet(task_futures) =>
              /\ next_task = t
              /\ pc \in {"get_state", "get_result", "update"}
              /\ t \in SeqToSet(poll_items)
         /\ pc \notin {"get_state", "get_result", "update"} =>
              /\ t \notin SeqToSet(task_futures)
              /\ gs_state[t] = "SUCCESSFUL"
              /\ gs_result[t] = Result(t)
              /\ term_writes[t] = 1

PollPcs == {"get_state", "get_result", "update"}

\* C15: every iteration of the loop makes exactly one release_next_task
\* call and at most one submit_task call and then calls get_state,
\* get_result and update_task_state once, in mapping order, on every handle
\* that is in the mapping when the poll step starts, whether or not a unit
\* was pulled or submitted.
C15_PerCycleWork ==
  /\ cycle.pulls <= 1 /\ cycle.submits <= 1
  /\ pc \in {"idle", "pull"} => cycle = NoCycle
  /\ pc \in {"route", "admit", "submit", "reject"} =>
       (cycle.pulls = 1 /\ cycle.submits = 0 /\ cycle.states = <<>>)
  /\ pc \in PollPcs =>
       /\ cycle.pulls = 1
       /\ cycle.start = cycle.updates \o poll_items
       /\ cycle.states = cycle.updates \o
            (IF pc = "get_state" THEN <<>> ELSE <<Head(poll_items)>>)
       /\ cycle.results = cycle.updates \o
            (IF pc = "update" THEN <<Head(poll_items)>> ELSE <<>>)
  /\ pc \in {"loop", "finalize", "done"} =>
       \/ cycle = NoCycle
       \/ /\ cycle.pulls = 1
          /\ cycle.states = cycle.start
          /\ cycle.results = cycle.start
          /\ cycle.updates = cycle.start

\* C16: a handle enters the mapping exactly when its unit is submitted and
\* leaves it exactly in the poll step that polled a terminal state; a handle
\* whose task is not done stays; a terminal state is written at most once
\* per task and no update follows it.
C16_InFlightBookkeeping ==
  /\ [](\A t \in Tasks :
          /\ term_writes[t] <= 1
          /\ (t \in SeqToSet(task_futures)
              /\ TaskStateIsTerminal(seen_state[t])) =>
               (pc \in {"get_result", "update"} /\ Head(poll_items) = t))
  /\ [][\A t \in Tasks :
          /\ (t \notin SeqToSet(task_futures)
              /\ t \in SeqToSet(task_futures')) =>
               (pc = "submit" /\ next_task = t)
          /\ (pc = "submit" /\ pc' \in {"get_state", "loop"}
              /\ next_task = t) => t \in SeqToSet(task_futures')
          /\ (t \in SeqToSet(task_futures)
              /\ t \notin SeqToSet(task_futures')) =>
               (pc = "update" /\ Head(poll_items) = t
                /\ TaskStateIsTerminal(state))
          /\ (t \in SeqToSet(task_futures) /\ fut[t] = "running") =>
               t \in SeqToSet(task_futures')]_vars

InFlightPooled == {t \in SeqToSet(task_futures) : handles[t] = "wrapped"}

\* C19: at the start of every loop cycle at most max_tasks handles issued by
\* the pooled executor are in the in-flight mapping, and the future of each
\* of them is still in the executor's active_futures.
C19_MappingWithinBookkeeping ==
  pc = "loop" =>
    /\ Cardinality(InFlightPooled) <= max_tasks
    /\ InFlightPooled \subseteq SeqToSet(active_futures)

C19_Witness ==
  /\ pc = "loop"
  /\ Cardinality(InFlightPooled) = max_tasks
  /\ \E t \in InFlightPooled : fut[t] # "running"

\* C20: when run_until_complete returns normally the in-flight mapping is
\* empty and every task submit_task was called for has had exactly one
\* terminal state written.
C20_NothingLostAtExit ==
  (pc = "done" /\ init_ok /\ exc = "none") =>
    /\ task_futures = <<>>
    /\ \A t \in Tasks : submit_log[t] # <<>> => term_writes[t] = 1

C20_Witness ==
  /\ pc = "done" /\ init_ok /\ exc = "none"
  /\ \E t, u \in Tasks :
       /\ submit_log[t] = <<"remote_executor">> /\ gs_state[t] = "SUCCESSFUL"
       /\ submit_log[u] = <<"local_executor">>

\* ------------------------------------- direct use of one executor
\* The pool accepts work: it exists and has not been shut down.
PoolAccepts(p) == p.class # "None" /\ ~p.shutdown

\* A caller invokes can_submit_task() on an executor.
CallCanSubmit(e) ==
  /\ pc = "idle"
  /\ IF e = "local_executor"
     THEN /\ last_check' = Checked(e, "can_submit_task", <<>>, <<>>, TRUE)
          /\ UNCHANGED active_futures
     ELSE LET pruned == PruneActiveFutures(active_futures, fut) IN
          /\ active_futures' = pruned
          /\ last_check' = Checked(e, "can_submit_task", active_futures,
                                   pruned, CanSubmitTask(pruned, max_tasks))
  /\ last_call' = NoCall
  /\ UNCHANGED <<config_vars, mgr_executors, mgr_last, audit_vars,
                 initialized, pool, fut, handles, graph_vars, task_futures,
                 pc, local_vars, outcome_vars, started, seen_state>>

\* A caller invokes submit_task() on the pooled executor; pool.submit
\* raises before the append when there is no pool or it was shut down.
CallSubmit(t) ==
  /\ pc = "idle"
  /\ fut[t] = "none"
  /\ IF PoolAccepts(pool)
     THEN /\ fut' = [fut EXCEPT ![t] = "running"]
          /\ active_futures' = Append(active_futures, t)
          /\ handles' = [handles EXCEPT ![t] = "wrapped"]
     ELSE UNCHANGED <<fut, active_futures, handles>>
  /\ last_check' = Checked("remote_executor", "submit_task", active_futures,
                           active_futures', PoolAccepts(pool))
  /\ last_call' = NoCall
  /\ UNCHANGED <<config_vars, mgr_executors, mgr_last, audit_vars,
                 initialized, pool, graph_vars, task_futures,
                 pc, local_vars, outcome_vars, started, seen_state>>

PoolNext ==
  \/ \E e \in ExecutorIds : ExecutorInit(e)
  \/ \E e \in ExecutorIds : ExecutorFinalize(e)
  \/ \E e \in ExecutorIds : CallCanSubmit(e)
  \/ \E t \in Tasks : CallSubmit(t)
  \/ \E t \in Tasks, ok \in BOOLEAN : WorkerComplete(t, ok)

PoolSpec == Init /\ [][PoolNext]_vars

PooledCall(op) ==
  last_check.executor = "remote_executor" /\ last_check.op = op

\* C17 as stated: after a successful init() of the pooled executor its
\* active_futures is empty; finalize() leaves it as it was and submit_task()
\* only appends to it; no submission tracked before a finalize() followed by
\* init() is still not done.
C17_ResetOnlyByInit ==
  /\ (PooledCall("init") /\ last_check.answer) =>
       (last_check.after = <<>> /\ active_futures = <<>>)
  /\ PooledCall("finalize") => last_check.after = last_check.before
  /\ (PooledCall("submit_task") /\ last_check.answer) =>
       /\ Len(last_check.after) = Len(last_check.before) + 1
       /\ SubSeq(last_check.after, 1, Len(last_check.before))
            = last_check.before
  /\ ~initialized => PruneActiveFutures(active_futures, fut) = <<>>

\* C17, amended: init() leaves active_futures as it was, as finalize()
\* does, and submit_task() only appends to it; after a successful init()
\* every future still tracked is done, so that none of them is counted once
\* can_submit_task() has pruned.
C17_InitKeepsDoneFutures ==
  /\ (PooledCall("init") \/ PooledCall("finalize")) =>
       last_check.after = last_check.before
  /\ (PooledCall("init") /\ last_check.answer) =>
       SeqToSet(last_check.before) \cap last_check.not_done = {}
  /\ (PooledCall("submit_task") /\ last_check.answer) =>
       /\ Len(last_check.after) = Len(last_check.before) + 1
       /\ SubSeq(last_check.after, 1, Len(last_check.before))
            = last_check.before
  /\ ~initialized => PruneActiveFutures(active_futures, fut) = <<>>

C17_Witness ==
  /\ PooledCall("init") /\ last_check.answer
  /\ Len(last_check.before) = NumTasks
  /\ active_futures = last_check.before

\* Position of task t in the sequence s (0 when absent).
IndexOf(s, t) ==
  IF t \in SeqToSet(s) THEN CHOOSE i \in 1..Len(s) : s[i] = t ELSE 0

====
